---------------------------- MODULE Spec2Model ----------------------------
(***************************************************************************)
(* Model of the PhotoEditor Telegram bot: the SQLite user store            *)
(* (database.py), the remove.bg client and the update handlers (bot.py).   *)
(*                                                                         *)
(* Five specifications share the variables:                                *)
(*   Spec       the bot: inbound updates handled by the handlers of bot.py *)
(*              (the photo handler is a coroutine, one action per awaited  *)
(*              call, so several photo updates can be in flight);          *)
(*   SpecStore  the functions of database.py called directly, on any id;   *)
(*   SpecApi    remove_background_api on any HTTP outcome, followed by the *)
(*              except clauses of handle_photo;                            *)
(*   SpecCmd    the command and button handlers with the calls they make   *)
(*              (store, Telegram), next to one photo update;               *)
(*   SpecRace   upsert_user statement by statement, called by several      *)
(*              handlers on the event loop.                                *)
(***************************************************************************)
EXTENDS Integers, Sequences, FiniteSets, TLC

VARIABLES
    users,      \* the rows of table users (database.py:19-25)
    photo,      \* per photo update: the state of its handle_photo coroutine
    storeOp,    \* SpecStore: the last direct call of a database.py function
    incCalls,   \* SpecStore: per user id, increments applied since its row exists
    apiCall,    \* SpecApi: the HTTP outcome, the result and the text chosen
    event,      \* SpecCmd: the last update handled and the calls its handler made
    upserts     \* SpecRace: per handler, how far its upsert_user call has got

vars == <<users, photo, storeOp, incCalls, apiCall, event, upserts>>

---------------------------------------------------------------------------
(* Bounds of the model.                                                    *)

MaxUsers == 2
MaxPhotos == 2
MaxTime == 2
MaxIncrements == 3
MaxCallers == 3

UserIds == 1..MaxUsers
PhotoIds == 1..MaxPhotos
Timestamps == 1..MaxTime

\* SQL NULL / Python None for the optional name fields of a Telegram user.
Null == "NULL"
\* Pairs <<username, first_name>> a Telegram user can carry.
StoreNames == {<<Null, Null>>, <<"alice", "Al">>, <<Null, "Al">>}

\* update.effective_user is None
NoUser == 0

---------------------------------------------------------------------------
(* database.py: table users and the statements run against it.             *)

\* init_db: CREATE TABLE IF NOT EXISTS leaves an existing table as it is;
\* main() has created the (empty) table before any handler runs.
init_db(table) == table

\* SELECT ... FROM users WHERE user_id = ?
SelectUser(table, user_id) == {r \in table : r.user_id = user_id}

\* UPDATE users SET username = ?, first_name = ? WHERE user_id = ?
UpdateNames(table, user_id, username, first_name) ==
    {IF r.user_id = user_id
        THEN [r EXCEPT !.username = username, !.first_name = first_name]
        ELSE r : r \in table}

\* INSERT INTO users (...) VALUES (?, ?, ?, 0, ?); user_id is the PRIMARY KEY,
\* so a second row with the same user_id raises sqlite3.IntegrityError.
InsertUser(table, user_id, username, first_name, now) ==
    IF SelectUser(table, user_id) # {}
        THEN [raised |-> TRUE, table |-> table]
        ELSE [raised |-> FALSE,
              table |-> table \cup {[user_id |-> user_id,
                                     username |-> username,
                                     first_name |-> first_name,
                                     photos_processed |-> 0,
                                     created_at |-> now]}]

\* A faulty upsert: INSERT OR REPLACE, which rewrites the whole row.
upsert_user_replace(table, user_id, username, first_name, now) ==
    [raised |-> FALSE,
     table |-> {r \in table : r.user_id # user_id}
                 \cup {[user_id |-> user_id, username |-> username,
                        first_name |-> first_name, photos_processed |-> 0,
                        created_at |-> now]}]

\* A faulty upsert: the INSERT branch is taken whether or not the row exists
\* and the table has no primary key.
upsert_user_dup(table, user_id, username, first_name, now) ==
    [raised |-> FALSE,
     table |-> table \cup {[user_id |-> user_id, username |-> username,
                            first_name |-> first_name, photos_processed |-> 0,
                            created_at |-> now]}]

upsert_user(table, user_id, username, first_name, now) ==
    LET t == init_db(table)
        exists == SelectUser(t, user_id)
    IN  IF exists # {}
            THEN [raised |-> FALSE,
                  table |-> UpdateNames(t, user_id, username, first_name)]
            ELSE InsertUser(t, user_id, username, first_name, now)

\* A faulty increment: the UPDATE has no WHERE clause.
increment_all(table, user_id) ==
    [raised |-> FALSE,
     table |-> {[r EXCEPT !.photos_processed = @ + 1] : r \in table}]

\* A faulty increment: adds 2.
increment_twice(table, user_id) ==
    [raised |-> FALSE,
     table |-> {IF r.user_id = user_id
                   THEN [r EXCEPT !.photos_processed = @ + 2]
                   ELSE r : r \in table}]

\* UPDATE users SET photos_processed = photos_processed + 1 WHERE user_id = ?
increment_photos_processed(table, user_id) ==
    LET t == init_db(table)
    IN  [raised |-> FALSE,
         table |-> {IF r.user_id = user_id
                       THEN [r EXCEPT !.photos_processed = @ + 1]
                       ELSE r : r \in t}]

\* The placeholder get_user_profile puts in place of a NULL name (the em dash
\* U+2014 in the source, written in ASCII here).
Dash == "--"

NoProfile ==
    [user_id |-> NoUser, username |-> Dash, first_name |-> Dash,
     photos_processed |-> 0, created_at |-> 0]

\* row["username"] or Dash: NULL and the empty string are falsy.
OrDash(v) == IF v = Null \/ v = "" THEN Dash ELSE v

get_user_profile(table, user_id) ==
    LET t == init_db(table)
        rows == SelectUser(t, user_id)
    IN  IF rows = {}
            THEN [found |-> FALSE, profile |-> NoProfile]
            ELSE LET row == CHOOSE r \in rows : TRUE
                 IN  [found |-> TRUE,
                      profile |-> [user_id |-> row.user_id,
                                   username |-> OrDash(row.username),
                                   first_name |-> OrDash(row.first_name),
                                   photos_processed |-> row.photos_processed,
                                   created_at |-> row.created_at]]

---------------------------------------------------------------------------
(* bot.py: exception classes.                                              *)

\* The direct base class of each exception class that can occur: the three
\* classes of bot.py:32-41, those requests raises, those the interpreter
\* raises inside _extract_error_message, and what a failed Telegram call or
\* SQLite statement raises inside handle_photo.
BaseClass(cls) ==
    CASE cls = "RemoveBgNetworkError" -> "RemoveBgError"
      [] cls = "RemoveBgQuotaError" -> "RemoveBgError"
      [] cls = "RemoveBgError" -> "Exception"
      [] cls = "ConnectionError" -> "RequestException"
      [] cls = "Timeout" -> "RequestException"
      [] cls = "RequestException" -> "Exception"
      [] cls = "ValueError" -> "Exception"
      [] cls = "AttributeError" -> "Exception"
      [] cls = "TypeError" -> "Exception"
      [] cls = "TelegramError" -> "Exception"
      [] cls = "sqlite3.Error" -> "Exception"
      [] OTHER -> "BaseException"

RECURSIVE IsInstance(_, _)
\* isinstance(exc, cls), which is what an except clause tests.
IsInstance(exc, cls) ==
    IF exc = cls THEN TRUE
    ELSE IF exc = "BaseException" \/ exc = "none" THEN FALSE
    ELSE IsInstance(BaseClass(exc), cls)

---------------------------------------------------------------------------
(* bot.py: the remove.bg client.                                           *)

\* A JSON value found under "title" or "detail": absent or null (k = "null"),
\* a string, or a number.
JNull == [k |-> "null", s |-> ""]
JStr(s) == [k |-> "str", s |-> s]
JNum(s) == [k |-> "num", s |-> s]

\* An entry of the errors array: an object with title and detail, or
\* something else (isdict = FALSE).
ErrObj(title, detail) == [isdict |-> TRUE, title |-> title, detail |-> detail]
ErrOther == [isdict |-> FALSE, title |-> JNull, detail |-> JNull]

\* response.json(): t = "invalid" (not JSON: json() raises ValueError),
\* "object" (a dict) or "other" (valid JSON that is not an object: a list, a
\* string, a number, null).  For an object, errors is its "errors" member:
\* "absent", "other" (not a list) or "list" with its items.
JInvalid == [t |-> "invalid", errors |-> "absent", items |-> <<>>]
JOther == [t |-> "other", errors |-> "absent", items |-> <<>>]
JObject(errors, items) == [t |-> "object", errors |-> errors, items |-> items]

\* Response bodies: the raw bytes (response.content, and response.text once
\* decoded) and what response.json() parses them to.
Bodies ==
    { [raw |-> "PNG-1", json |-> JInvalid],
      [raw |-> "PNG-2", json |-> JInvalid],
      [raw |-> "", json |-> JInvalid],
      [raw |-> "<html>Bad Gateway</html>", json |-> JInvalid],
      [raw |-> "[]", json |-> JOther],
      [raw |-> "null", json |-> JOther],
      [raw |-> "{}", json |-> JObject("absent", <<>>)],
      [raw |-> "{\"errors\":\"oops\"}", json |-> JObject("other", <<>>)],
      [raw |-> "{\"errors\":[]}", json |-> JObject("list", <<>>)],
      [raw |-> "{\"errors\":[{\"title\":\"Insufficient credits\"}]}",
       json |-> JObject("list",
                   <<ErrObj(JStr("Insufficient credits"), JNull)>>)],
      [raw |-> "{\"errors\":[{\"title\":\"Bad request\",\"detail\":\"No image\"}]}",
       json |-> JObject("list",
                   <<ErrObj(JStr("Bad request"), JStr("No image"))>>)],
      [raw |-> "{\"errors\":[{\"title\":\"A\"},{\"detail\":\"B\"}]}",
       json |-> JObject("list",
                   <<ErrObj(JStr("A"), JNull), ErrObj(JNull, JStr("B"))>>)],
      [raw |-> "{\"errors\":[{\"title\":\"\"}]}",
       json |-> JObject("list", <<ErrObj(JStr(""), JNull)>>)],
      [raw |-> "{\"errors\":[\"oops\"]}",
       json |-> JObject("list", <<ErrOther>>)],
      [raw |-> "{\"errors\":[{\"title\":5}]}",
       json |-> JObject("list", <<ErrObj(JNum("5"), JNull)>>)] }

Statuses == {200, 400, 402, 429, 500}

Responses == [status : Statuses, body : Bodies]

NoResponse == [status |-> 0, body |-> [raw |-> "", json |-> JInvalid]]

\* What requests.post comes to: a response, or a transport-level failure (an
\* exception of requests raised before any response).
TransportErrors == {"ConnectionError", "Timeout"}

HttpOutcomes ==
    {[exc |-> "none", response |-> r] : r \in Responses}
        \cup {[exc |-> e, response |-> NoResponse] : e \in TransportErrors}

\* A call's outcome: a returned value (exc = "none") or a raised exception of
\* class exc carrying message value.
Return(v) == [exc |-> "none", value |-> v]
Raise(cls, msg) == [exc |-> cls, value |-> msg]

\* Python truthiness of a title or detail.
Truthy(v) == (v.k = "str" /\ v.s # "") \/ v.k = "num"

\* parts = [part for part in (title, detail) if part]
Parts(error) ==
    LET title == IF error.isdict THEN error.title ELSE JNull
        detail == IF error.isdict THEN error.detail ELSE JNull
    IN  SelectSeq(<<title, detail>>, Truthy)

RECURSIVE Join(_, _)
\* sep.join(strs) for a sequence of strings.
Join(sep, strs) ==
    IF strs = <<>> THEN ""
    ELSE IF Len(strs) = 1 THEN strs[1]
    ELSE strs[1] \o sep \o Join(sep, Tail(strs))

RECURSIVE Messages(_)
\* The for loop of _extract_error_message: the messages list.
Messages(errors) ==
    IF errors = <<>> THEN <<>>
    ELSE LET parts == Parts(errors[1])
         IN  IF parts = <<>> THEN Messages(Tail(errors))
             ELSE <<Join(": ", [i \in 1..Len(parts) |-> parts[i].s])>>
                      \o Messages(Tail(errors))

\* str.join raises TypeError on an item that is not a string.
JoinRaises(errors) ==
    \E i \in 1..Len(errors) :
        \E j \in 1..Len(Parts(errors[i])) : Parts(errors[i])[j].k # "str"

\* A faulty extraction: the body is never parsed, the raw text is returned.
_extract_error_message_raw(response) == Return(response.body.raw)

\* response.json() raises ValueError on a body that is not JSON, which the
\* except clause turns into the raw text; data.get raises AttributeError on
\* JSON that is not an object, and join raises TypeError, and neither is
\* caught.
_extract_error_message(response) ==
    LET data == response.body.json
    IN  IF data.t = "invalid" THEN Return(response.body.raw)
        ELSE IF data.t # "object" THEN Raise("AttributeError", "get")
        ELSE IF data.errors = "list" /\ data.items # <<>>
            THEN IF JoinRaises(data.items) THEN Raise("TypeError", "join")
                 ELSE IF Messages(data.items) # <<>>
                     THEN Return(Join("; ", Messages(data.items)))
                     ELSE Return(response.body.raw)
            ELSE Return(response.body.raw)

\* A faulty client: the error message is extracted before the status is
\* looked at.
remove_background_api_eager(http) ==
    IF IsInstance(http.exc, "RequestException")
        THEN Raise("RemoveBgNetworkError", "connect")
    ELSE LET response == http.response
             msg == _extract_error_message(response)
         IN  IF msg.exc # "none" THEN msg
             ELSE IF response.status = 200 THEN Return(response.body.raw)
             ELSE IF response.status \in {402, 429}
                 THEN Raise("RemoveBgQuotaError", msg.value)
             ELSE Raise("RemoveBgError", msg.value)

remove_background_api(http) ==
    IF IsInstance(http.exc, "RequestException")
        THEN Raise("RemoveBgNetworkError", "connect")
    ELSE IF http.exc # "none" THEN Raise(http.exc, "")
    ELSE LET response == http.response
         IN  IF response.status = 200 THEN Return(response.body.raw)
             ELSE LET msg == _extract_error_message(response)
                  IN  IF msg.exc # "none" THEN msg
                      ELSE IF response.status \in {402, 429}
                          THEN Raise("RemoveBgQuotaError", msg.value)
                      ELSE Raise("RemoveBgError", msg.value)

\* The except clauses of handle_photo, in source order, with the config text
\* each passes to processing_message.edit_text.
ExceptClausesBaseFirst ==
    << [cls |-> "RemoveBgError", text |-> "ERROR_TEXT"],
       [cls |-> "RemoveBgQuotaError", text |-> "LIMIT_ERROR_TEXT"],
       [cls |-> "RemoveBgNetworkError", text |-> "NETWORK_ERROR_TEXT"],
       [cls |-> "Exception", text |-> "ERROR_TEXT"] >>

ExceptClauses ==
    << [cls |-> "RemoveBgQuotaError", text |-> "LIMIT_ERROR_TEXT"],
       [cls |-> "RemoveBgNetworkError", text |-> "NETWORK_ERROR_TEXT"],
       [cls |-> "RemoveBgError", text |-> "ERROR_TEXT"],
       [cls |-> "Exception", text |-> "ERROR_TEXT"] >>

\* The first except clause whose class the exception is an instance of.
ExceptText(exc) ==
    LET i == CHOOSE k \in 1..Len(ExceptClauses) :
                 /\ IsInstance(exc, ExceptClauses[k].cls)
                 /\ \A j \in 1..(k - 1) : ~IsInstance(exc, ExceptClauses[j].cls)
    IN  ExceptClauses[i].text

\* The texts the except clauses can put in place of the placeholder.
ErrorTexts == {"LIMIT_ERROR_TEXT", "NETWORK_ERROR_TEXT", "ERROR_TEXT"}

---------------------------------------------------------------------------
(* State after construction.                                               *)

NoStoreOp ==
    [name |-> "none", user_id |-> NoUser, username |-> Null,
     first_name |-> Null, existed |-> FALSE, raised |-> FALSE]

\* The handle_photo coroutine of a photo update not yet delivered.  pc is
\* the awaited call it is suspended in ("new": not delivered; "ignored": the
\* guard returned; "done": returned; "crashed": left by an exception);
\* missing is the field the guard found missing ("none": the update had user,
\* message and photo); placeholder is what processing_message shows; documents and increments
\* count reply_document calls that succeeded and counter updates committed;
\* exc, failedAt, text and edits are the exception caught in the try block,
\* the step that raised it, and the edit_text calls the except clauses made;
\* steps lists the calls the handler has made so far, in order.
NewPhoto ==
    [pc |-> "new", user |-> NoUser, fresh |-> FALSE, missing |-> "none",
     placeholder |-> "none",
     removed |-> FALSE, documents |-> 0, increments |-> 0,
     exc |-> "none", failedAt |-> "none", text |-> "none", edits |-> 0,
     steps |-> <<>>]

ApiIdle == [phase |-> "idle", http |-> [exc |-> "none", response |-> NoResponse],
            result |-> Return(""), text |-> "none"]

\* An inbound update as the handlers read it: update.effective_user (or
\* callback_query.from_user) with its names, whether update.message (or
\* update.callback_query) is there, whether message.photo is not empty, and
\* callback_query.data.
Update(user, username, first_name, hasMessage, hasPhoto, data) ==
    [user |-> user, username |-> username, first_name |-> first_name,
     hasMessage |-> hasMessage, hasPhoto |-> hasPhoto, data |-> data]

\* The handlers that call upsert_user in SpecRace, and a call not yet made:
\* pc is "idle", "selected" (the SELECT has run, exists is what it found),
\* "done" (committed) or "raised" (the INSERT raised IntegrityError).
Callers == 1..MaxCallers

NoUpsert == [pc |-> "idle", user_id |-> NoUser, exists |-> FALSE, now |-> 0]

\* No update handled yet.
NoEvent ==
    [kind |-> "none", upd |-> Update(NoUser, Null, Null, FALSE, FALSE, ""),
     calls |-> <<>>, raised |-> FALSE]

Init ==
    /\ users = {}
    /\ photo = [e \in PhotoIds |-> NewPhoto]
    /\ storeOp = NoStoreOp
    /\ incCalls = [u \in UserIds |-> 0]
    /\ apiCall = ApiIdle
    /\ event = NoEvent
    /\ upserts = [c \in Callers |-> NoUpsert]

---------------------------------------------------------------------------
(* SpecStore: database.py called directly.                                 *)

StoreUpsert(user_id, username, first_name, now) ==
    LET res == upsert_user(users, user_id, username, first_name, now)
    IN  /\ users' = res.table
        /\ storeOp' = [name |-> "upsert", user_id |-> user_id,
                       username |-> username, first_name |-> first_name,
                       existed |-> SelectUser(users, user_id) # {},
                       raised |-> res.raised]
        /\ UNCHANGED <<incCalls, photo, apiCall, event, upserts>>

RECURSIVE SumUpTo(_, _)
SumUpTo(f, n) == IF n = 0 THEN 0 ELSE f[n] + SumUpTo(f, n - 1)

\* The increment calls made so far on ids that had a row.
IncrementCalls == SumUpTo(incCalls, MaxUsers)

StoreIncrement(user_id) ==
    LET res == increment_photos_processed(users, user_id)
        existed == SelectUser(users, user_id) # {}
    IN  /\ IncrementCalls < MaxIncrements
        /\ users' = res.table
        /\ storeOp' = [name |-> "increment", user_id |-> user_id,
                       username |-> Null, first_name |-> Null,
                       existed |-> existed, raised |-> res.raised]
        /\ incCalls' = IF existed
                          THEN [incCalls EXCEPT ![user_id] = @ + 1]
                          ELSE incCalls
        /\ UNCHANGED <<photo, apiCall, event, upserts>>

NextStore ==
    \/ \E u \in UserIds, n \in StoreNames, t \in Timestamps :
           StoreUpsert(u, n[1], n[2], t)
    \/ \E u \in UserIds : StoreIncrement(u)

SpecStore == Init /\ [][NextStore]_vars

---------------------------------------------------------------------------
(* SpecApi: remove_background_api on one HTTP outcome, then the except     *)
(* clauses of handle_photo on its result.                                  *)

InitApi ==
    /\ users = {}
    /\ photo = [e \in PhotoIds |-> NewPhoto]
    /\ storeOp = NoStoreOp
    /\ incCalls = [u \in UserIds |-> 0]
    /\ apiCall \in {[ApiIdle EXCEPT !.phase = "ready", !.http = h] :
                       h \in HttpOutcomes}
    /\ event = NoEvent
    /\ upserts = [c \in Callers |-> NoUpsert]

\* loop.run_in_executor(None, remove_background_api, bytes(photo_bytes))
ApiCall ==
    /\ apiCall.phase = "ready"
    /\ apiCall' = [apiCall EXCEPT !.phase = "called",
                                  !.result = remove_background_api(apiCall.http)]
    /\ UNCHANGED <<users, photo, storeOp, incCalls, event, upserts>>

\* What handle_photo does with the result: the caption of reply_document, or
\* the text of the except clause that catches the exception.
ApiHandle ==
    /\ apiCall.phase = "called"
    /\ apiCall' = [apiCall EXCEPT
                      !.phase = "handled",
                      !.text = IF apiCall.result.exc = "none"
                                  THEN "SUCCESS_TEXT"
                                  ELSE ExceptText(apiCall.result.exc)]
    /\ UNCHANGED <<users, photo, storeOp, incCalls, event, upserts>>

NextApi == ApiCall \/ ApiHandle

SpecApi == InitApi /\ [][NextApi]_vars

---------------------------------------------------------------------------
(* Spec: the handlers of bot.py.  A command or button handler touches the  *)
(* store only before its last await, so it is one action.  handle_photo is *)
(* one action per awaited call; an awaited Telegram call, the remove.bg    *)
(* call and the counter update may each fail.                              *)

\* The names Telegram reports for the sender of an update.  (SpecStore runs
\* upsert_user over every pair of StoreNames.)
Names == {<<"alice", "Al">>}

MessageUpdates ==
    {Update(u, n[1], n[2], TRUE, FALSE, "") : u \in UserIds, n \in Names}
        \cup {Update(NoUser, Null, Null, TRUE, FALSE, ""),
              Update(1, "alice", "Al", FALSE, FALSE, "")}

PhotoUpdates ==
    {Update(u, n[1], n[2], TRUE, TRUE, "") : u \in UserIds, n \in Names}
        \cup {Update(NoUser, Null, Null, TRUE, TRUE, ""),
              Update(1, "alice", "Al", FALSE, FALSE, ""),
              Update(1, "alice", "Al", TRUE, FALSE, "")}

ButtonData == {"remove_bg", "profile", "help", "other"}

ButtonUpdates ==
    {Update(u, n[1], n[2], TRUE, FALSE, d) :
        u \in UserIds, n \in Names, d \in ButtonData}
        \cup {Update(NoUser, Null, Null, TRUE, FALSE, "help"),
              Update(NoUser, Null, Null, FALSE, FALSE, "")}

\* A call a handler makes: a function of database.py, or a Telegram method
\* with the config text passed to it, the values formatted into that text
\* and whether reply_markup=get_main_menu_keyboard() goes with it.
Call(op, text, args, menu) ==
    [op |-> op, text |-> text, args |-> args, menu |-> menu]

NoArgs == NoProfile

StoreCall(op) == Call(op, "", NoArgs, FALSE)

\* What running a handler comes to: the table it leaves, the calls it made
\* in order, and whether an exception left it (raised by its last call).
Handled(table, calls, raised) ==
    [table |-> table, calls |-> calls, raised |-> raised]

\* The awaited Telegram call of a handler that fails, if any: query.answer(),
\* or the reply_text / edit_message_text that ends the handler.
Failures == {"none", "answer", "send"}

\* A faulty rendering: "@" is put before the username whatever it is.
profile_text_always_at(profile) ==
    [profile EXCEPT !.username = "@" \o profile.username]

\* The values formatted into PROFILE_TEXT (bot.py:142-152 and 181-191):
\* the profile with "@" before the username unless it is the placeholder.
\* (created_at is cut at the "T" of the ISO timestamp, which leaves the date;
\* a timestamp of the model carries no time of day.)
profile_text(profile) ==
    [profile EXCEPT !.username = IF profile.username # Dash
                                    THEN "@" \o profile.username
                                    ELSE Dash]

\* A faulty start handler: it greets without touching the store.
start_command_no_upsert(table, upd, now, fail) ==
    IF upd.user = NoUser \/ ~upd.hasMessage THEN Handled(table, <<>>, FALSE)
    ELSE Handled(table, <<Call("reply_text", "WELCOME_TEXT", NoArgs, TRUE)>>,
                 fail = "send")

start_command(table, upd, now, fail) ==
    IF upd.user = NoUser \/ ~upd.hasMessage THEN Handled(table, <<>>, FALSE)
    ELSE LET res == upsert_user(table, upd.user, upd.username,
                                upd.first_name, now)
         IN  IF res.raised
                 THEN Handled(res.table, <<StoreCall("upsert_user")>>, TRUE)
                 ELSE Handled(res.table,
                              <<StoreCall("upsert_user"),
                                Call("reply_text", "WELCOME_TEXT", NoArgs, TRUE)>>,
                              fail = "send")

help_command(table, upd, fail) ==
    IF ~upd.hasMessage THEN Handled(table, <<>>, FALSE)
    ELSE Handled(table, <<Call("reply_text", "HELP_TEXT", NoArgs, TRUE)>>,
                 fail = "send")

\* A faulty profile handler: the guard tests the message only.
profile_command_no_user_check(table, upd, fail) ==
    IF ~upd.hasMessage THEN Handled(table, <<>>, FALSE)
    ELSE LET got == get_user_profile(table, upd.user)
         IN  IF ~got.found
                 THEN Handled(table, <<StoreCall("get_user_profile")>>, FALSE)
                 ELSE Handled(table,
                              <<StoreCall("get_user_profile"),
                                Call("reply_text", "PROFILE_TEXT",
                                     profile_text(got.profile), TRUE)>>,
                              fail = "send")

\* A faulty profile handler: a user without row is registered first.
profile_command_upsert(table, upd, fail) ==
    IF upd.user = NoUser \/ ~upd.hasMessage THEN Handled(table, <<>>, FALSE)
    ELSE LET res == upsert_user(table, upd.user, upd.username,
                                upd.first_name, 1)
             got == get_user_profile(res.table, upd.user)
         IN  Handled(res.table,
                     <<StoreCall("upsert_user"), StoreCall("get_user_profile"),
                       Call("reply_text", "PROFILE_TEXT",
                            profile_text(got.profile), TRUE)>>,
                     fail = "send")

profile_command(table, upd, fail) ==
    IF upd.user = NoUser \/ ~upd.hasMessage THEN Handled(table, <<>>, FALSE)
    ELSE LET got == get_user_profile(table, upd.user)
         IN  IF ~got.found
                 THEN Handled(table, <<StoreCall("get_user_profile")>>, FALSE)
                 ELSE Handled(table,
                              <<StoreCall("get_user_profile"),
                                Call("reply_text", "PROFILE_TEXT",
                                     profile_text(got.profile), TRUE)>>,
                              fail = "send")

\* A faulty button handler: the profile is read before the upsert.
button_callback_read_first(table, upd, now, fail) ==
    IF ~upd.hasMessage THEN Handled(table, <<>>, FALSE)
    ELSE IF fail = "answer"
        THEN Handled(table, <<Call("answer", "", NoArgs, FALSE)>>, TRUE)
    ELSE LET got == get_user_profile(table, upd.user)
             res == IF upd.user # NoUser
                       THEN upsert_user(table, upd.user, upd.username,
                                        upd.first_name, now)
                       ELSE [raised |-> FALSE, table |-> table]
             pre == <<Call("answer", "", NoArgs, FALSE)>>
                       \o (IF upd.user # NoUser /\ upd.data = "profile"
                              THEN <<StoreCall("get_user_profile")>> ELSE <<>>)
                       \o (IF upd.user # NoUser
                              THEN <<StoreCall("upsert_user")>> ELSE <<>>)
         IN  IF upd.data = "remove_bg"
                 THEN Handled(res.table,
                              pre \o <<Call("edit_message_text",
                                            "SEND_PHOTO_TEXT", NoArgs, TRUE)>>,
                              fail = "send")
             ELSE IF upd.data = "profile" /\ upd.user # NoUser /\ got.found
                 THEN Handled(res.table,
                              pre \o <<Call("edit_message_text", "PROFILE_TEXT",
                                            profile_text(got.profile), TRUE)>>,
                              fail = "send")
             ELSE IF upd.data = "help"
                 THEN Handled(res.table,
                              pre \o <<Call("edit_message_text", "HELP_TEXT",
                                            NoArgs, TRUE)>>,
                              fail = "send")
             ELSE Handled(res.table, pre, FALSE)

\* button_callback (hasMessage stands for update.callback_query, user for
\* query.from_user)
button_callback(table, upd, now, fail) ==
    IF ~upd.hasMessage THEN Handled(table, <<>>, FALSE)
    ELSE IF fail = "answer"
        THEN Handled(table, <<Call("answer", "", NoArgs, FALSE)>>, TRUE)
    ELSE LET res == IF upd.user # NoUser
                       THEN upsert_user(table, upd.user, upd.username,
                                        upd.first_name, now)
                       ELSE [raised |-> FALSE, table |-> table]
             pre == <<Call("answer", "", NoArgs, FALSE)>>
                       \o (IF upd.user # NoUser
                              THEN <<StoreCall("upsert_user")>> ELSE <<>>)
             got == get_user_profile(res.table, upd.user)
         IN  IF res.raised THEN Handled(res.table, pre, TRUE)
             ELSE IF upd.data = "remove_bg"
                 THEN Handled(res.table,
                              pre \o <<Call("edit_message_text",
                                            "SEND_PHOTO_TEXT", NoArgs, TRUE)>>,
                              fail = "send")
             ELSE IF upd.data = "profile" /\ upd.user # NoUser
                 THEN IF got.found
                     THEN Handled(res.table,
                                  pre \o <<StoreCall("get_user_profile"),
                                            Call("edit_message_text",
                                                 "PROFILE_TEXT",
                                                 profile_text(got.profile),
                                                 TRUE)>>,
                                  fail = "send")
                     ELSE Handled(res.table,
                                  pre \o <<StoreCall("get_user_profile")>>,
                                  FALSE)
             ELSE IF upd.data = "help"
                 THEN Handled(res.table,
                              pre \o <<Call("edit_message_text", "HELP_TEXT",
                                            NoArgs, TRUE)>>,
                              fail = "send")
             ELSE Handled(res.table, pre, FALSE)

\* start_command, as far as the store goes (the calls it makes are part of
\* the state in SpecCmd).
StartCommand(upd, now) ==
    /\ users' = start_command(users, upd, now, "none").table
    /\ UNCHANGED <<photo, storeOp, incCalls, apiCall, event, upserts>>

\* help_command, as far as the store goes
HelpCommand(upd) ==
    /\ help_command(users, upd, "none").table = users
    /\ UNCHANGED <<users, photo, storeOp, incCalls, apiCall, event, upserts>>

\* profile_command, as far as the store goes
ProfileCommand(upd) ==
    /\ profile_command(users, upd, "none").table = users
    /\ UNCHANGED <<users, photo, storeOp, incCalls, apiCall, event, upserts>>

\* button_callback, as far as the store goes
ButtonCallback(upd, now) ==
    /\ users' = button_callback(users, upd, now, "none").table
    /\ UNCHANGED <<photo, storeOp, incCalls, apiCall, event, upserts>>

\* An exception of class cls raised inside the try block at step: the first
\* matching except clause calls processing_message.edit_text with its text.
Caught(h, step, cls) ==
    [h EXCEPT !.pc = "edit", !.exc = cls, !.failedAt = step,
              !.text = ExceptText(cls), !.edits = @ + 1,
              !.steps = Append(@, "edit_text")]

\* The handler h has made the call named.
Step(h, call) == [h EXCEPT !.steps = Append(@, call)]

\* if not user or not message or not message.photo: the first operand that
\* decides the test.
MissingField(upd) ==
    IF upd.user = NoUser THEN "user"
    ELSE IF ~upd.hasMessage THEN "message"
    ELSE IF ~upd.hasPhoto THEN "photo"
    ELSE "none"

\* handle_photo up to its first await: the guard, upsert_user and
\* message.reply_text(PROCESSING_TEXT), which is outside the try block.
PhotoStart(e, upd, now, ok) ==
    /\ photo[e].pc = "new"
    /\ IF MissingField(upd) # "none"
          THEN /\ photo' = [photo EXCEPT ![e].pc = "ignored",
                                         ![e].missing = MissingField(upd)]
               /\ UNCHANGED users
          ELSE LET res == upsert_user(users, upd.user, upd.username,
                                      upd.first_name, now)
                   h == [photo[e] EXCEPT
                            !.user = upd.user,
                            !.fresh = (SelectUser(users, upd.user) = {}),
                            !.steps = IF res.raised
                                         THEN <<"upsert_user">>
                                         ELSE <<"upsert_user", "reply_text">>]
               IN  /\ users' = res.table
                   /\ photo' =
                        IF res.raised \/ ~ok
                            THEN [photo EXCEPT ![e] = [h EXCEPT !.pc = "crashed"]]
                            ELSE [photo EXCEPT ![e] =
                                     [h EXCEPT !.pc = "download",
                                               !.placeholder = "PROCESSING_TEXT"]]
    /\ UNCHANGED <<storeOp, incCalls, apiCall, event, upserts>>

\* message.photo[-1].get_file() and photo_file.download_as_bytearray()
PhotoDownload(e, ok) ==
    /\ photo[e].pc = "download"
    /\ LET h == Step(photo[e], "download")
       IN  photo' = [photo EXCEPT ![e] =
                        IF ok THEN [h EXCEPT !.pc = "remove"]
                        ELSE Caught(h, "download", "TelegramError")]
    /\ UNCHANGED <<users, storeOp, incCalls, apiCall, event, upserts>>

\* A faulty step: after a RemoveBgNetworkError the call is made once more.
PhotoRemoveRetry(e, http) ==
    /\ photo[e].pc = "remove"
    /\ LET res == remove_background_api(http)
           h == Step(Step(photo[e], "remove_background_api"), "requests.post")
       IN  photo' = [photo EXCEPT ![e] =
                        IF res.exc = "none"
                            THEN [h EXCEPT !.pc = "send", !.removed = TRUE]
                        ELSE IF res.exc = "RemoveBgNetworkError"
                                /\ Len(h.steps) < 6
                            THEN h
                        ELSE Caught(h, "remove", res.exc)]
    /\ UNCHANGED <<users, storeOp, incCalls, apiCall, event, upserts>>

\* loop.run_in_executor(None, remove_background_api, bytes(photo_bytes))
PhotoRemove(e, http) ==
    /\ photo[e].pc = "remove"
    /\ LET res == remove_background_api(http)
           h == Step(Step(photo[e], "remove_background_api"), "requests.post")
       IN  photo' = [photo EXCEPT ![e] =
                        IF res.exc = "none"
                            THEN [h EXCEPT !.pc = "send", !.removed = TRUE]
                            ELSE Caught(h, "remove", res.exc)]
    /\ UNCHANGED <<users, storeOp, incCalls, apiCall, event, upserts>>

\* A faulty step: the counter is updated before the attachment is sent
\* (lines 233-237 and 239 the other way round).
PhotoSendAfterIncrement(e, ok) ==
    /\ photo[e].pc = "send"
    /\ LET res == increment_photos_processed(users, photo[e].user)
           h == [Step(Step(photo[e], "increment_photos_processed"),
                      "reply_document") EXCEPT !.increments = @ + 1]
       IN  /\ users' = res.table
           /\ photo' = [photo EXCEPT ![e] =
                           IF ok THEN [h EXCEPT !.pc = "delete",
                                                !.documents = @ + 1]
                           ELSE Caught(h, "send", "TelegramError")]
    /\ UNCHANGED <<storeOp, incCalls, apiCall, event, upserts>>

\* message.reply_document(..., caption=SUCCESS_TEXT)
PhotoSend(e, ok) ==
    /\ photo[e].pc = "send"
    /\ LET h == Step(photo[e], "reply_document")
       IN  photo' = [photo EXCEPT ![e] =
                        IF ok THEN [h EXCEPT !.pc = "increment",
                                             !.documents = @ + 1]
                        ELSE Caught(h, "send", "TelegramError")]
    /\ UNCHANGED <<users, storeOp, incCalls, apiCall, event, upserts>>

\* A faulty step: the counter update is left out.
PhotoIncrementSkipped(e, ok) ==
    /\ photo[e].pc = "increment"
    /\ photo' = [photo EXCEPT ![e] =
                    IF ok THEN [@ EXCEPT !.pc = "delete"]
                    ELSE Caught(@, "increment", "sqlite3.Error")]
    /\ UNCHANGED <<users, storeOp, incCalls, apiCall, event, upserts>>

\* database.increment_photos_processed(user.id)
PhotoIncrement(e, ok) ==
    /\ photo[e].pc = "increment"
    /\ LET res == increment_photos_processed(users, photo[e].user)
           h == Step(photo[e], "increment_photos_processed")
       IN  IF ok /\ ~res.raised
               THEN /\ users' = res.table
                    /\ photo' = [photo EXCEPT ![e] =
                                    [h EXCEPT !.pc = "delete",
                                              !.increments = @ + 1]]
               ELSE /\ UNCHANGED users
                    /\ photo' = [photo EXCEPT ![e] =
                                    Caught(h, "increment", "sqlite3.Error")]
    /\ UNCHANGED <<storeOp, incCalls, apiCall, event, upserts>>

\* processing_message.delete()
PhotoDelete(e, ok) ==
    /\ photo[e].pc = "delete"
    /\ LET h == Step(photo[e], "delete")
       IN  photo' = [photo EXCEPT ![e] =
                        IF ok THEN [h EXCEPT !.pc = "done",
                                             !.placeholder = "deleted"]
                        ELSE Caught(h, "delete", "TelegramError")]
    /\ UNCHANGED <<users, storeOp, incCalls, apiCall, event, upserts>>

\* processing_message.edit_text(text) in an except clause; an exception it
\* raises leaves the handler.
PhotoEdit(e, ok) ==
    /\ photo[e].pc = "edit"
    /\ photo' = [photo EXCEPT ![e] =
                    IF ok THEN [@ EXCEPT !.pc = "done",
                                         !.placeholder = photo[e].text]
                    ELSE [@ EXCEPT !.pc = "crashed"]]
    /\ UNCHANGED <<users, storeOp, incCalls, apiCall, event, upserts>>

Next ==
    \/ \E upd \in MessageUpdates, t \in Timestamps : StartCommand(upd, t)
    \/ \E upd \in MessageUpdates : HelpCommand(upd)
    \/ \E upd \in MessageUpdates : ProfileCommand(upd)
    \/ \E upd \in ButtonUpdates, t \in Timestamps : ButtonCallback(upd, t)
    \/ \E e \in PhotoIds, upd \in PhotoUpdates, t \in Timestamps,
          ok \in BOOLEAN : PhotoStart(e, upd, t, ok)
    \/ \E e \in PhotoIds, ok \in BOOLEAN : PhotoDownload(e, ok)
    \/ \E e \in PhotoIds, http \in HttpOutcomes : PhotoRemove(e, http)
    \/ \E e \in PhotoIds, ok \in BOOLEAN : PhotoSend(e, ok)
    \/ \E e \in PhotoIds, ok \in BOOLEAN : PhotoIncrement(e, ok)
    \/ \E e \in PhotoIds, ok \in BOOLEAN : PhotoDelete(e, ok)
    \/ \E e \in PhotoIds, ok \in BOOLEAN : PhotoEdit(e, ok)

Spec == Init /\ [][Next]_vars

---------------------------------------------------------------------------
(* SpecCmd: the command and button handlers with the calls they make, and  *)
(* the handle_photo coroutine of one photo update.                         *)

\* The names each user carries in SpecCmd: a user with a username and one
\* with neither username nor first name.
CmdNames(u) == IF u = 1 THEN <<"alice", "Al">> ELSE <<Null, Null>>

CmdUpdates ==
    {Update(u, CmdNames(u)[1], CmdNames(u)[2], TRUE, FALSE, "") : u \in UserIds}
        \cup {Update(NoUser, Null, Null, TRUE, FALSE, ""),
              Update(1, "alice", "Al", FALSE, FALSE, ""),
              Update(NoUser, Null, Null, FALSE, FALSE, "")}

CmdButtonUpdates ==
    {Update(u, CmdNames(u)[1], CmdNames(u)[2], TRUE, FALSE, d) :
        u \in UserIds, d \in ButtonData}
        \cup {Update(NoUser, Null, Null, TRUE, FALSE, d) : d \in ButtonData}
        \cup {Update(NoUser, Null, Null, FALSE, FALSE, "help")}

CmdPhotoUpdates ==
    {Update(u, CmdNames(u)[1], CmdNames(u)[2], TRUE, TRUE, "") : u \in UserIds}
        \cup {Update(NoUser, Null, Null, TRUE, TRUE, ""),
              Update(1, "alice", "Al", FALSE, FALSE, ""),
              Update(1, "alice", "Al", TRUE, FALSE, "")}

\* One HTTP outcome of each kind handle_photo tells apart.
CmdHttpOutcomes ==
    {h \in HttpOutcomes :
        \/ h.exc = "ConnectionError"
        \/ h.exc = "none" /\ h.response.body.raw = "PNG-1"
                          /\ h.response.status \in {200, 402, 500}
        \/ h.exc = "none" /\ h.response.body.raw = "[]"
                          /\ h.response.status = 400}

\* The record of a handler of kind that has run on upd with outcome r.
EventOf(kind, upd, r) ==
    [kind |-> kind, upd |-> upd, calls |-> r.calls, raised |-> r.raised]

CmdStart(upd, now, fail) ==
    LET r == start_command(users, upd, now, fail)
    IN  /\ users' = r.table
        /\ event' = EventOf("start", upd, r)
        /\ UNCHANGED <<photo, storeOp, incCalls, apiCall, upserts>>

CmdHelp(upd, fail) ==
    LET r == help_command(users, upd, fail)
    IN  /\ users' = r.table
        /\ event' = EventOf("help", upd, r)
        /\ UNCHANGED <<photo, storeOp, incCalls, apiCall, upserts>>

CmdProfile(upd, fail) ==
    LET r == profile_command(users, upd, fail)
    IN  /\ users' = r.table
        /\ event' = EventOf("profile", upd, r)
        /\ UNCHANGED <<photo, storeOp, incCalls, apiCall, upserts>>

CmdButton(upd, now, fail) ==
    LET r == button_callback(users, upd, now, fail)
    IN  /\ users' = r.table
        /\ event' = EventOf("button", upd, r)
        /\ UNCHANGED <<photo, storeOp, incCalls, apiCall, upserts>>

NextCmd ==
    \/ \E upd \in CmdUpdates, t \in Timestamps, f \in {"none", "send"} :
           CmdStart(upd, t, f)
    \/ \E upd \in CmdUpdates, f \in {"none", "send"} : CmdHelp(upd, f)
    \/ \E upd \in CmdUpdates, f \in {"none", "send"} : CmdProfile(upd, f)
    \/ \E upd \in CmdButtonUpdates, t \in Timestamps, f \in Failures :
           CmdButton(upd, t, f)
    \/ \E upd \in CmdPhotoUpdates, t \in Timestamps, ok \in BOOLEAN :
           PhotoStart(1, upd, t, ok)
    \/ \E ok \in BOOLEAN : PhotoDownload(1, ok)
    \/ \E http \in CmdHttpOutcomes : PhotoRemove(1, http)
    \/ \E ok \in BOOLEAN : PhotoSend(1, ok)
    \/ \E ok \in BOOLEAN : PhotoIncrement(1, ok)
    \/ \E ok \in BOOLEAN : PhotoDelete(1, ok)
    \/ \E ok \in BOOLEAN : PhotoEdit(1, ok)

SpecCmd == Init /\ [][NextCmd]_vars

---------------------------------------------------------------------------
(* SpecRace: upsert_user statement by statement.  Every handler calls it   *)
(* from its coroutine on the event-loop thread (bot.py:109, 171, 214), and *)
(* it is a plain function: from its SELECT to its commit there is no await *)
(* at which another handler could run.                                     *)

\* A faulty scheduling: upsert_user is run in worker threads (as
\* remove_background_api is), so calls overlap.
LoopFreeThreaded(c) == TRUE

\* Handler c can run: no other handler is inside upsert_user.
LoopFree(c) == \A o \in Callers \ {c} : upserts[o].pc # "selected"

\* cursor.execute("SELECT user_id FROM users WHERE user_id = ?"); fetchone()
RaceSelect(c, user_id, now) ==
    /\ upserts[c].pc = "idle"
    /\ LoopFree(c)
    /\ upserts' = [upserts EXCEPT ![c] =
                      [pc |-> "selected", user_id |-> user_id,
                       exists |-> SelectUser(init_db(users), user_id) # {},
                       now |-> now]]
    /\ UNCHANGED <<users, photo, storeOp, incCalls, apiCall, event>>

\* if exists: UPDATE ... else: INSERT ...; conn.commit()
RaceWrite(c) ==
    /\ upserts[c].pc = "selected"
    /\ LoopFree(c)
    /\ LET u == upserts[c]
           res == IF u.exists
                     THEN [raised |-> FALSE,
                           table |-> UpdateNames(users, u.user_id, "alice", "Al")]
                     ELSE InsertUser(users, u.user_id, "alice", "Al", u.now)
       IN  /\ users' = res.table
           /\ upserts' = [upserts EXCEPT ![c].pc =
                             IF res.raised THEN "raised" ELSE "done"]
    /\ UNCHANGED <<photo, storeOp, incCalls, apiCall, event>>

NextRace ==
    \/ \E c \in Callers, u \in UserIds, t \in Timestamps : RaceSelect(c, u, t)
    \/ \E c \in Callers : RaceWrite(c)

SpecRace == Init /\ [][NextRace]_vars

---------------------------------------------------------------------------
(* Properties of the user store (checked under SpecStore).                 *)

\* The rows of user_id other than id.
OtherRows(table, id) == {r \in table : r.user_id # id}

\* What a call upsert_user(id, ...) may do to the table: one row for id
\* afterwards, carrying the names given; a new row starts with counter 0 and
\* a timestamp; an existing row keeps its counter and created_at; the rows
\* of the other ids are the same.
UpsertPost ==
    LET id == storeOp'.user_id
        before == SelectUser(users, id)
        after == SelectUser(users', id)
    IN  /\ ~storeOp'.raised
        /\ Cardinality(after) = 1
        /\ \A r \in after :
              /\ r.username = storeOp'.username
              /\ r.first_name = storeOp'.first_name
              /\ before = {} =>
                    r.photos_processed = 0 /\ r.created_at \in Timestamps
              /\ \A b \in before :
                    /\ r.photos_processed = b.photos_processed
                    /\ r.created_at = b.created_at
        /\ OtherRows(users', id) = OtherRows(users, id)

\* C1: upsert_user on an id with no row creates exactly one row with
\* photos_processed = 0 and a created_at timestamp; on an id with a row it
\* changes only username and first_name of that row, and photos_processed,
\* created_at and every other user's row stay as they were.
C1_UpsertFrame == [][storeOp'.name = "upsert" => UpsertPost]_vars

\* C1 witness: upsert_user has just run on an existing row whose counter is
\* not 0, giving it other names, while another user has a row too.
C1_Witness ==
    /\ storeOp.name = "upsert" /\ storeOp.existed
    /\ storeOp.username = Null /\ storeOp.first_name = "Al"
    /\ \E r \in users : r.user_id = storeOp.user_id /\ r.photos_processed = 2
                          /\ r.username = Null /\ r.created_at = 1
    /\ \E r \in users : r.user_id # storeOp.user_id /\ r.photos_processed = 1

\* What a call increment_photos_processed(id) may do to the table: nothing
\* when id has no row (no row appears); otherwise the row of id gets its
\* counter raised by 1; the other rows are the same, and nothing is raised.
IncrementPost ==
    LET id == storeOp'.user_id
        before == SelectUser(users, id)
        after == SelectUser(users', id)
    IN  /\ ~storeOp'.raised
        /\ before = {} => users' = users
        /\ \A b \in before :
              after = {[b EXCEPT !.photos_processed = b.photos_processed + 1]}
        /\ OtherRows(users', id) = OtherRows(users, id)

\* C2: after N calls of increment_photos_processed on an id since its row
\* was created (with counter 0), the row's photos_processed is N, for every
\* N from 0 up to MaxIncrements; a call on an id with no row creates no row,
\* changes no other row and raises nothing.
C2_IncrementCounts ==
    /\ [](\A r \in users : r.photos_processed = incCalls[r.user_id])
    /\ [][storeOp'.name = "increment" => IncrementPost]_vars

\* C2 witness: increment_photos_processed has just run on an id with no row,
\* which still has none, while the other user's row has counted its calls.
C2_Witness ==
    /\ storeOp.name = "increment" /\ ~storeOp.existed
    /\ SelectUser(users, storeOp.user_id) = {}
    /\ \E r \in users : r.photos_processed = 2 /\ incCalls[r.user_id] = 2

---------------------------------------------------------------------------
(* Properties of the bot (checked under Spec).                             *)

\* The handle_photo coroutine of update e is suspended in an awaited call.
InFlight(e) ==
    photo[e].pc \in {"download", "remove", "send", "increment", "delete", "edit"}

\* photos_processed of user u (0 when u has no row).
Counter(u) ==
    IF SelectUser(users, u) = {} THEN 0
    ELSE (CHOOSE r \in SelectUser(users, u) : TRUE).photos_processed

\* The photo updates of user u.
PhotosOf(u) == {e \in PhotoIds : photo[e].user = u}

\* C3: in every reachable state the table holds at most one row per
\* user_id, and from one state to the next every row is still there, with a
\* photos_processed that has not decreased and the created_at it was
\* inserted with.
C3_RowInvariants ==
    /\ [](\A u \in UserIds : Cardinality(SelectUser(users, u)) <= 1)
    /\ [][\A r \in users :
             /\ SelectUser(users', r.user_id) # {}
             /\ \A n \in SelectUser(users', r.user_id) :
                   /\ n.photos_processed >= r.photos_processed
                   /\ n.created_at = r.created_at]_vars

\* C3 witness: both users have a row, created at different times, one has
\* had two photos counted, and start and button updates have arrived since
\* (every state is followed by such updates).
C3_Witness ==
    /\ \E r \in users : r.user_id = 1 /\ r.photos_processed = 2
                          /\ r.created_at = 1
    /\ \E r \in users : r.user_id = 2 /\ r.created_at = 2

\* C4 (as claimed): a photo update whose handler has returned ended either
\* with the full pipeline done (removal, attachment, increment), the
\* placeholder deleted and no error text, or with exactly one error text,
\* no attachment sent and no increment; never an attachment together with
\* an error text, never an error text together with an increment.
C4_NoPartialSuccess ==
    \A e \in PhotoIds :
        LET h == photo[e]
        IN  (h.pc = "done") =>
               \/ /\ h.removed /\ h.documents = 1 /\ h.increments = 1
                  /\ h.placeholder = "deleted" /\ h.edits = 0
               \/ /\ h.placeholder \in ErrorTexts /\ h.edits = 1
                  /\ h.documents = 0 /\ h.increments = 0

\* C5 (as claimed): once every photo handler has returned, each user's
\* photos_processed is the number of that user's photo updates whose
\* background removal returned the image.
C5_CounterIsRemovals ==
    (\A e \in PhotoIds : photo[e].pc \in {"new", "ignored", "done"}) =>
        \A u \in UserIds :
            Counter(u) = Cardinality({e \in PhotosOf(u) : photo[e].removed})

\* C5 (amended): once no photo handler is in flight, each user's
\* photos_processed is the number of that user's photo updates whose
\* background removal returned the image, whose attachment was then sent
\* and whose counter update did not fail; start, help, profile and button
\* updates and photo updates of other users, interleaved in any way, add
\* nothing to it.
C5_CounterIsDeliveries ==
    (\A e \in PhotoIds : ~InFlight(e)) =>
        \A u \in UserIds :
            Counter(u) = Cardinality({e \in PhotosOf(u) :
                                         /\ photo[e].removed
                                         /\ photo[e].documents = 1
                                         /\ photo[e].failedAt # "increment"})

\* C5 witness: two photo updates of one user were in flight together and
\* have finished; both removals returned, one attachment could not be sent,
\* and the counter is 1.
C5_Witness ==
    /\ \A e \in PhotoIds : ~InFlight(e)
    /\ \E u \in UserIds :
          /\ Cardinality({e \in PhotosOf(u) : photo[e].removed}) = 2
          /\ \E e \in PhotosOf(u) : photo[e].failedAt = "send"
          /\ Counter(u) = 1

\* C6: a photo update from a user with no row leaves a row for that user;
\* the handler sends at most one attachment and increments at most once; and
\* when no step of it fails, it ends with exactly one attachment sent,
\* exactly one increment (the counter is 1, plus the increments of the
\* user's other photo updates) and the placeholder deleted.
C6_NewUserPhoto ==
    \A e \in PhotoIds :
        LET h == photo[e]
        IN  h.fresh =>
               /\ Cardinality(SelectUser(users, h.user)) = 1
               /\ h.documents <= 1 /\ h.increments <= 1
               /\ (h.pc = "done" /\ h.failedAt = "none") =>
                     /\ h.documents = 1
                     /\ h.increments = 1
                     /\ h.placeholder = "deleted"
                     /\ h.edits = 0
                     /\ Counter(h.user) =
                           1 + Cardinality({o \in PhotosOf(h.user) \ {e} :
                                               photo[o].increments = 1})

\* C6 witness: the handler of a photo update from a user with no row has
\* returned without a failure and the user's counter is 1.
C6_Witness ==
    \E e \in PhotoIds :
        /\ photo[e].fresh /\ photo[e].pc = "done" /\ photo[e].failedAt = "none"
        /\ Counter(photo[e].user) = 1
        /\ photo[e].placeholder = "deleted"

\* C7 (as claimed): when the handler of a photo update is over and its
\* placeholder was sent, the placeholder is deleted or shows an error text.
C7_PlaceholderResolved ==
    \A e \in PhotoIds :
        (photo[e].pc \in {"done", "crashed"} /\ photo[e].placeholder # "none")
            => photo[e].placeholder \in {"deleted"} \cup ErrorTexts

\* C8: a photo update that failed inside the try block gets exactly one
\* edit_text call, with the quota text exactly for a RemoveBgQuotaError, the
\* network text exactly for a RemoveBgNetworkError and the generic text for
\* a plain RemoveBgError and any other exception; once that call has
\* returned the placeholder shows this text; without a failure there is no
\* edit.
C8_ErrorTextByKind ==
    \A e \in PhotoIds :
        LET h == photo[e]
        IN  /\ h.failedAt = "none" => h.edits = 0 /\ h.text = "none"
            /\ h.failedAt # "none" =>
                  /\ h.edits = 1
                  /\ h.pc \in {"edit", "done", "crashed"}
                  /\ h.text \in ErrorTexts
                  /\ h.text = "LIMIT_ERROR_TEXT" <=> h.exc = "RemoveBgQuotaError"
                  /\ h.text = "NETWORK_ERROR_TEXT"
                        <=> h.exc = "RemoveBgNetworkError"
                  /\ h.pc = "done" => h.placeholder = h.text
                  /\ h.pc # "done" => h.placeholder = "PROCESSING_TEXT"

\* C8 witness: remove.bg answered with a quota status and the placeholder
\* now shows the quota text.
C8_Witness ==
    \E e \in PhotoIds :
        /\ photo[e].pc = "done" /\ photo[e].exc = "RemoveBgQuotaError"
        /\ photo[e].placeholder = "LIMIT_ERROR_TEXT"

---------------------------------------------------------------------------
(* Properties of the remove.bg client (checked under SpecApi).             *)

\* C9 (as claimed): remove_background_api returns, or raises one of
\* RemoveBgNetworkError, RemoveBgQuotaError and RemoveBgError, whatever the
\* status and the body; on a status other than 200 it raises
\* RemoveBgQuotaError exactly when the status is 402 or 429 and a plain
\* RemoveBgError otherwise.
C9_OnlyDocumentedFailures ==
    apiCall.phase \in {"called", "handled"} =>
        LET r == apiCall.result
            h == apiCall.http
        IN  /\ r.exc \in {"none", "RemoveBgNetworkError", "RemoveBgQuotaError",
                          "RemoveBgError"}
            /\ (h.exc = "none" /\ h.response.status # 200) =>
                  IF h.response.status \in {402, 429}
                      THEN r.exc = "RemoveBgQuotaError"
                      ELSE r.exc = "RemoveBgError"

\* C10: on a response with status 200 remove_background_api returns the
\* body as received, whatever the body is; on a transport failure it raises
\* RemoveBgNetworkError, for which handle_photo chooses the network text and
\* not the generic one.
C10_OkBodyAndNetworkError ==
    apiCall.phase \in {"called", "handled"} =>
        LET r == apiCall.result
            h == apiCall.http
        IN  /\ (h.exc = "none" /\ h.response.status = 200) =>
                  r = Return(h.response.body.raw)
            /\ h.exc \in TransportErrors =>
                  /\ r.exc = "RemoveBgNetworkError"
                  /\ r.exc # "RemoveBgError"
                  /\ apiCall.phase = "handled" =>
                        apiCall.text = "NETWORK_ERROR_TEXT"

\* C10 witness: a status 200 response whose body is a JSON array has been
\* returned as it is and handled as a success.
C10_Witness ==
    /\ apiCall.phase = "handled"
    /\ apiCall.http.response.status = 200
    /\ apiCall.http.response.body.json.t = "other"
    /\ apiCall.result = Return("[]")
    /\ apiCall.text = "SUCCESS_TEXT"

\* The message the claim gives for each body of Bodies that has an errors
\* list with a title or a detail in it; for every other body, the raw text.
C11_Expected(raw) ==
    CASE raw = "{\"errors\":[{\"title\":\"Insufficient credits\"}]}"
            -> "Insufficient credits"
      [] raw = "{\"errors\":[{\"title\":\"Bad request\",\"detail\":\"No image\"}]}"
            -> "Bad request: No image"
      [] raw = "{\"errors\":[{\"title\":\"A\"},{\"detail\":\"B\"}]}"
            -> "A; B"
      [] OTHER -> raw

\* C11: the message of a raised RemoveBgQuotaError or RemoveBgError is taken
\* from the body: title and detail of each entry of a non-empty errors list
\* joined by ": ", the entries joined by "; "; the raw response text when the
\* body is not JSON, has no errors list, or no entry has a title or detail.
C11_MessageFromBody ==
    apiCall.phase \in {"called", "handled"} =>
        LET r == apiCall.result
            body == apiCall.http.response.body
        IN  r.exc \in {"RemoveBgQuotaError", "RemoveBgError"} =>
               /\ r.value = C11_Expected(body.raw)
               /\ (\/ body.json.t = "invalid"
                   \/ body.json.errors # "list"
                   \/ \A i \in 1..Len(body.json.items) :
                         LET e == body.json.items[i]
                         IN  ~e.isdict \/ (e.title.s = "" /\ e.detail.s = ""))
                     => r.value = body.raw

\* C11 witness: status 429 with errors [{title: "Insufficient credits"}] has
\* raised RemoveBgQuotaError carrying "Insufficient credits".
C11_Witness ==
    /\ apiCall.phase = "called"
    /\ apiCall.http.response.status = 429
    /\ apiCall.http.response.body.raw
          = "{\"errors\":[{\"title\":\"Insufficient credits\"}]}"
    /\ apiCall.result = Raise("RemoveBgQuotaError", "Insufficient credits")

---------------------------------------------------------------------------
(* Properties of the command and button handlers (checked under SpecCmd).  *)

\* The update of the last event carries the user and the message (or the
\* callback query).
EventComplete == event.upd.user # NoUser /\ event.upd.hasMessage

\* query.answer() of the last button event has returned.
Acknowledged == ~(event.raised /\ Len(event.calls) = 1)

\* C12 (as claimed): after a start, help or profile command or a button
\* press from user u has been handled, and once the handler of a photo from
\* u has started, a row of u is in the table.
C12_RowAfterAnyEvent ==
    /\ (event.kind \in {"start", "help", "profile", "button"} /\ EventComplete
        /\ Acknowledged)
          => SelectUser(users, event.upd.user) # {}
    /\ photo[1].pc \notin {"new", "ignored"}
          => SelectUser(users, photo[1].user) # {}

\* C12 (amended): after a start command from user u has been handled, after
\* a button press from u has been acknowledged and handled, and once the
\* handler of a photo from u has started, a row of u is in the table; a help
\* or profile command leaves the table as it is (it creates no row).
C12_RowAfterStartButtonPhoto ==
    /\ [](/\ (event.kind = "start" /\ EventComplete)
               => SelectUser(users, event.upd.user) # {}
          /\ (event.kind = "button" /\ EventComplete /\ Acknowledged)
               => SelectUser(users, event.upd.user) # {}
          /\ photo[1].pc \notin {"new", "ignored"}
               => SelectUser(users, photo[1].user) # {})
    /\ [][(event' # event /\ event'.kind \in {"help", "profile"})
             => users' = users]_vars

\* C12 witness: the only event so far with a user is a button press of user
\* 2, and user 2 has a row (made by button_callback).
C12_Witness ==
    /\ event.kind = "button" /\ event.upd.user = 2
    /\ event.calls[2].op = "upsert_user"
    /\ \E r \in users : r.user_id = 2 /\ r.created_at = 2
    /\ SelectUser(users, 1) = {}
    /\ photo[1].pc = "new"

\* The name as get_user_profile is to return it: the placeholder for NULL.
C13_Shown(name) == IF name = Null THEN Dash ELSE name

\* C13: get_user_profile finds nothing for an id with no row; for a row it
\* returns user_id, photos_processed and created_at as stored and the names
\* with the placeholder in place of NULL; and the profile text, sent by
\* profile_command or put in place by button_callback, carries "@" and the
\* username when the row has one, and the bare placeholder when it has none.
C13_ProfileAndRendering ==
    /\ \A u \in UserIds :
          LET got == get_user_profile(users, u)
          IN  /\ SelectUser(users, u) = {} => ~got.found
              /\ \A r \in SelectUser(users, u) :
                    /\ got.found
                    /\ got.profile.user_id = r.user_id
                    /\ got.profile.photos_processed = r.photos_processed
                    /\ got.profile.created_at = r.created_at
                    /\ got.profile.username = C13_Shown(r.username)
                    /\ got.profile.first_name = C13_Shown(r.first_name)
    /\ \A i \in 1..Len(event.calls) :
          event.calls[i].text = "PROFILE_TEXT" =>
             \A r \in SelectUser(users, event.upd.user) :
                /\ event.calls[i].op = IF event.kind = "profile"
                                          THEN "reply_text"
                                          ELSE "edit_message_text"
                /\ event.calls[i].args.user_id = r.user_id
                /\ event.calls[i].args.first_name = C13_Shown(r.first_name)
                /\ r.username = Null => event.calls[i].args.username = Dash
                /\ r.username # Null =>
                      event.calls[i].args.username = "@" \o r.username

\* C13 witness: the profile button of a user without username has put the
\* profile text in place, with the placeholder for username and first name.
C13_Witness ==
    /\ event.kind = "button" /\ event.upd.data = "profile"
    /\ event.upd.user = 2
    /\ \E r \in users : r.user_id = 2 /\ r.username = Null
    /\ Len(event.calls) = 4
    /\ event.calls[4].text = "PROFILE_TEXT"
    /\ event.calls[4].args.username = Dash
    /\ event.calls[4].args.first_name = Dash

\* The last event lacks a field at all (user, or message / callback query).
EventLacksField == event.upd.user = NoUser \/ ~event.upd.hasMessage

\* The last event lacks a field its handler tests before doing anything:
\* user or message for start and profile, the message for help, the callback
\* query for a button press.
EventLacksRequired ==
    \/ event.kind \in {"start", "profile"} /\ EventLacksField
    \/ event.kind \in {"help", "button"} /\ ~event.upd.hasMessage

\* The photo update lacked user, message or photo, and its handler returned
\* at once: no placeholder, no removal, no attachment, no increment, no edit.
PhotoIgnored ==
    photo[1] = [NewPhoto EXCEPT !.pc = "ignored", !.missing = photo[1].missing]

\* C14 (as claimed): an update without user or without message is a no-op
\* for every handler (no call made, nothing raised), and so is a photo update
\* without user, message or photo.
C14_NoOpWithoutAnyField ==
    /\ (event.kind # "none" /\ EventLacksField)
          => event.calls = <<>> /\ ~event.raised
    /\ photo[1].missing # "none" => PhotoIgnored

\* C14 (amended): an update lacking a field its handler requires (start and
\* profile: user and message; help: the message; button: the callback query;
\* photo: user, message and photo) is a no-op: the handler makes no call,
\* raises nothing and leaves the table as it is, and the photo handler sends
\* no placeholder and does not call the remover.  A help command without
\* user is answered, and a button press without user is acknowledged and,
\* for remove_bg and help, edited in place.
C14_NoOpWithoutRequiredField ==
    /\ [](/\ EventLacksRequired => event.calls = <<>> /\ ~event.raised
          /\ photo[1].missing # "none" => PhotoIgnored
          /\ photo[1].pc = "ignored" <=> photo[1].missing # "none"
          /\ (event.kind = "help" /\ event.upd.hasMessage)
                => Len(event.calls) = 1
          /\ (event.kind = "button" /\ event.upd.hasMessage
              /\ event.upd.user = NoUser /\ ~event.raised)
                => /\ event.calls[1].op = "answer"
                   /\ Len(event.calls) =
                         IF event.upd.data \in {"remove_bg", "help"}
                            THEN 2 ELSE 1)
    /\ [][((event' # event /\ EventLacksRequired')
            \/ (photo[1].pc = "new" /\ photo'[1].missing # "none"))
             => users' = users]_vars

\* C14 witness: a start command without message, after which a photo update
\* without photo was ignored, both with a table that holds a row.
C14_Witness ==
    /\ event.kind = "start" /\ event.upd.user = 1 /\ ~event.upd.hasMessage
    /\ event.calls = <<>>
    /\ photo[1].pc = "ignored" /\ photo[1].missing = "photo"
    /\ SelectUser(users, 2) # {} /\ SelectUser(users, 1) = {}

\* The Telegram calls among calls.
Outbound(calls) ==
    SelectSeq(calls, LAMBDA c : c.op \in {"answer", "reply_text",
                                           "edit_message_text"})

\* C15: a profile command (with user and message) leaves the table as it
\* is; from a user without row it makes no Telegram call and raises nothing;
\* from a user with a row it makes exactly one, reply_text with the profile
\* text of that row and the menu.
C15_ProfileCommand ==
    [][(event' # event /\ event'.kind = "profile" /\ ~EventLacksField')
          => LET u == event'.upd.user
                 out == Outbound(event'.calls)
             IN  /\ users' = users
                 /\ SelectUser(users, u) = {}
                       => out = <<>> /\ ~event'.raised
                 /\ \A r \in SelectUser(users, u) :
                       /\ Len(out) = 1
                       /\ out[1].op = "reply_text"
                       /\ out[1].text = "PROFILE_TEXT"
                       /\ out[1].menu
                       /\ out[1].args.user_id = u
                       /\ out[1].args.photos_processed = r.photos_processed
                       /\ out[1].args.created_at = r.created_at]_vars

\* C15 witness: the profile command of a user whose photo has been counted
\* has sent the profile text with counter 1.
C15_Witness ==
    /\ event.kind = "profile" /\ event.upd.user = 1 /\ ~event.raised
    /\ Len(event.calls) = 2
    /\ event.calls[2].args.photos_processed = 1
    /\ event.calls[2].args.username = "@alice"
    /\ SelectUser(users, 2) = {}

\* The config text button_callback puts in place for each callback data.
C17_TextFor(data) ==
    CASE data = "remove_bg" -> "SEND_PHOTO_TEXT"
      [] data = "profile" -> "PROFILE_TEXT"
      [] data = "help" -> "HELP_TEXT"
      [] OTHER -> "none"

\* C17: a button press is acknowledged first (query.answer), then the user
\* is upserted, then the message of the menu is edited in place with the text
\* of the button and the menu, as the handler's last call; reply_text is
\* never called; and for the profile button the profile is read after the
\* upsert, so that it is found also for a user seen for the first time.
C17_ButtonOrder ==
    (event.kind = "button" /\ event.upd.hasMessage) =>
        LET calls == event.calls
            user == event.upd.user
            data == event.upd.data
        IN  /\ calls[1].op = "answer"
            /\ \A i \in 1..Len(calls) :
                  /\ calls[i].op # "reply_text"
                  /\ calls[i].op = "answer" => i = 1
                  /\ calls[i].op = "upsert_user" => i = 2
                  /\ calls[i].op = "get_user_profile"
                        => i = 3 /\ data = "profile"
                  /\ calls[i].op = "edit_message_text"
                        => /\ i = Len(calls)
                           /\ calls[i].text = C17_TextFor(data)
                           /\ calls[i].menu
            /\ Acknowledged =>
                  /\ user # NoUser => calls[2].op = "upsert_user"
                  /\ data \in {"remove_bg", "help"}
                        => calls[Len(calls)].op = "edit_message_text"
                  /\ (data = "profile" /\ user # NoUser)
                        => /\ Len(calls) = 4
                           /\ calls[3].op = "get_user_profile"
                           /\ calls[4].op = "edit_message_text"
                           /\ calls[4].args.user_id = user
                  /\ (data = "profile" /\ user = NoUser) => Len(calls) = 1

\* C17 witness: the profile button of user 1, the first event of that user,
\* has been acknowledged, the user upserted, the profile read and edited in.
C17_Witness ==
    /\ event.kind = "button" /\ event.upd.data = "profile"
    /\ event.upd.user = 1 /\ ~event.raised
    /\ Len(event.calls) = 4
    /\ event.calls[4].args.photos_processed = 0
    /\ \E r \in users : r.user_id = 1 /\ r.created_at = 1
    /\ SelectUser(users, 2) = {}
    /\ photo[1].pc = "new"

\* How many times call occurs in calls.
Count(calls, call) == Len(SelectSeq(calls, LAMBDA c : c = call))

\* C19: a photo handler calls remove_background_api at most once, and once
\* it has returned or failed (whatever the HTTP outcome) exactly one HTTP
\* request has been made for it; the start, help, profile and button
\* handlers make no such call and leave the photo handler's state alone.
C19_NoRetries ==
    /\ [](/\ Count(photo[1].steps, "remove_background_api") <= 1
          /\ Count(photo[1].steps, "requests.post")
                = Count(photo[1].steps, "remove_background_api")
          /\ (photo[1].removed \/ photo[1].failedAt = "remove")
                => Count(photo[1].steps, "requests.post") = 1
          /\ photo[1].failedAt = "download"
                => Count(photo[1].steps, "remove_background_api") = 0
          /\ \A i \in 1..Len(event.calls) :
                event.calls[i].op \in {"answer", "upsert_user",
                                       "get_user_profile", "reply_text",
                                       "edit_message_text"})
    /\ [][event' # event => photo' = photo]_vars

\* C19 witness: the remover failed with a network error, the placeholder
\* shows the network text and no second call was made; the remove_bg button
\* was pressed afterwards.
C19_Witness ==
    /\ photo[1].pc = "done" /\ photo[1].exc = "RemoveBgNetworkError"
    /\ Count(photo[1].steps, "requests.post") = 1
    /\ photo[1].placeholder = "NETWORK_ERROR_TEXT"
    /\ event.kind = "button" /\ event.upd.data = "remove_bg"
    /\ Len(event.calls) = 3

---------------------------------------------------------------------------
(* Concurrent first contacts (checked under SpecRace).                     *)

\* C18 (as claimed): upsert_user calls of first contacts can overlap: while
\* one handler has seen that the id has no row and has not inserted yet,
\* another handler can run the SELECT for the same id (and then both insert).
C18_SelectsCanOverlap ==
    \A c, o \in Callers :
        (/\ c # o
         /\ upserts[c].pc = "selected" /\ ~upserts[c].exists
         /\ upserts[o].pc = "idle")
            => ENABLED RaceSelect(o, upserts[c].user_id, upserts[c].now)

\* C18 (amended): upsert_user calls do not overlap: at most one handler is
\* between its SELECT and its commit, what a SELECT found is still true when
\* the write is made, and no INSERT raises a duplicate-key error; of the
\* first contacts of one id the first inserts and the others update.
C18_UpsertsDoNotOverlap ==
    /\ Cardinality({c \in Callers : upserts[c].pc = "selected"}) <= 1
    /\ \A c \in Callers :
          /\ upserts[c].pc # "raised"
          /\ upserts[c].pc = "selected"
                => (upserts[c].exists
                       <=> SelectUser(users, upserts[c].user_id) # {})
    /\ \A c, o \in Callers :
          (/\ c # o
           /\ upserts[c].pc = "done" /\ upserts[o].pc = "done"
           /\ upserts[c].user_id = upserts[o].user_id)
              => upserts[c].exists \/ upserts[o].exists

\* C18 witness: two handlers have called upsert_user for the same id, which
\* had no row; one inserted, the other found the row and updated it.
C18_Witness ==
    /\ upserts[1].pc = "done" /\ upserts[2].pc = "done"
    /\ upserts[1].user_id = 1 /\ upserts[2].user_id = 1
    /\ ~upserts[2].exists /\ upserts[1].exists
    /\ Cardinality(SelectUser(users, 1)) = 1

---------------------------------------------------------------------------
(* The order of the steps of handle_photo (checked under Spec).            *)

\* The steps of a photo event in the order claimed.
C16_Order ==
    <<"upsert_user", "reply_text", "download", "remove_background_api",
      "reply_document", "increment_photos_processed", "delete">>

\* C16: the calls a photo handler has made so far, the HTTP request and the
\* error edit left aside, are the first ones of: user upsert, placeholder
\* sent, download, background removal, attachment sent, counter increment,
\* placeholder deleted, each once and in this order; a counted photo has had
\* its attachment sent, and a deleted placeholder belongs to a counted photo.
C16_StepOrder ==
    \A e \in PhotoIds :
        LET main == SelectSeq(photo[e].steps,
                              LAMBDA c : c \notin {"requests.post", "edit_text"})
        IN  /\ Len(main) <= Len(C16_Order)
            /\ main = SubSeq(C16_Order, 1, Len(main))
            /\ photo[e].increments > 0 => photo[e].documents = 1
            /\ photo[e].placeholder = "deleted" => photo[e].increments = 1

\* C16 witness: a photo handler has gone through all seven steps while
\* another one failed at the increment, after its attachment was sent.
C16_Witness ==
    \E e, o \in PhotoIds :
        /\ photo[e].pc = "done"
        /\ Len(photo[e].steps) = 8 /\ photo[e].steps[8] = "delete"
        /\ photo[o].failedAt = "increment" /\ photo[o].documents = 1

=============================================================================
